---- MODULE Spec2Model ----
(***************************************************************************)
(* Model of pymarthe's MartheParam (src/pymarthe/mparam.py) together with  *)
(* the part of MartheModel (src/pymarthe/marthe.py) it reads: the grid     *)
(* shape, the active-cell mask and the grid array the parameter writes.    *)
(*                                                                         *)
(* Numbers are integers counting thousandths (1e-3 is 1, 5.0 is 5000), and *)
(* every Python scalar carries its type, because set_array tests           *)
(* isinstance(values, float) and a pandas column has one dtype.            *)
(* Text (names, file fields) is a sequence of one-character strings.       *)
(***************************************************************************)
EXTENDS Integers, Sequences, FiniteSets, TLC

----------------------------------------------------------------------------
(* Bounds of the model *)

\* largest number of layers / rows / columns of the grids of Init
MaxLay == 2
MaxRow == 2
MaxCol == 2
\* number of calls made on the parameter after its construction
MaxOps == 2
\* largest stride n_cell given to pp_from_rgrid
MaxStride == 3
\* side of the largest single-layer grid of InitRGrid
MaxSide == 4
\* number of layers of the one-column grid of InitDeep
DeepLay == 100

----------------------------------------------------------------------------
(* Python scalars *)

PyInt(v)   == [ty |-> "int", v |-> v]
PyFloat(v) == [ty |-> "float", v |-> v]
NaN        == [ty |-> "nan", v |-> 0]

\* isinstance(x, float): np.nan is a float
IsFloat(x) == x.ty \in {"float", "nan"}
IsNumber(x) == x.ty \in {"int", "float", "nan"}
\* float(x)
ToFloat(x) == IF x.ty = "int" THEN PyFloat(x.v) ELSE x
\* x == y on floats: nan compares unequal to everything, itself included
FloatEq(x, y) == x.ty # "nan" /\ y.ty # "nan" /\ x.v = y.v

Abs(z) == IF z < 0 THEN -z ELSE z

RECURSIVE SortedSeq(_)
\* the ascending sequence of a finite set of integers (np.unique order)
SortedSeq(S) ==
    IF S = {} THEN <<>>
    ELSE LET m == CHOOSE x \in S : \A y \in S : x <= y
         IN  <<m>> \o SortedSeq(S \ {m})

RECURSIVE Flatten(_)
Flatten(ss) == IF ss = <<>> THEN <<>> ELSE Head(ss) \o Flatten(Tail(ss))

Range(s) == {s[i] : i \in 1..Len(s)}

----------------------------------------------------------------------------
(* Text formatting *)

Digit(d) == <<"0", "1", "2", "3", "4", "5", "6", "7", "8", "9">>[d + 1]

RECURSIVE Decimal(_)
\* str(n) for n >= 0
Decimal(n) == IF n < 10 THEN <<Digit(n)>> ELSE Decimal(n \div 10) \o <<Digit(n % 10)>>

RECURSIVE ZeroPad(_, _)
ZeroPad(s, w) == IF Len(s) >= w THEN s ELSE ZeroPad(<<"0">> \o s, w)

\* '{:02d}'.format(n) and '{:03d}'.format(n): a minimum width, never a truncation
Fmt02d(n) == ZeroPad(Decimal(n), 2)
Fmt03d(n) == ZeroPad(Decimal(n), 3)

\* the parameter's name (self.name)
ParName == <<"p">>

\* ZPCFMT: '{0}_l{1:02d}_zpc{2:02d}'.format(name, int(lay+1), int(abs(zone)))
ZPCFMT(name, lay, zone) ==
    name \o <<"_", "l">> \o Fmt02d(lay + 1) \o <<"_", "z", "p", "c">> \o Fmt02d(Abs(zone))

\* s.startswith(p)
StartsWith(s, p) == Len(p) <= Len(s) /\ SubSeq(s, 1, Len(p)) = p

----------------------------------------------------------------------------
(* The model object (MartheModel): shape, coordinates, mask *)

Layers(m) == 0..(m.nlay - 1)
Rows(m)   == 0..(m.nrow - 1)
Cols(m)   == 0..(m.ncol - 1)
Cells(m)  == Layers(m) \X Rows(m) \X Cols(m)
Shape(m)  == <<m.nlay, m.nrow, m.ncol>>

\* imask = (grids['permh'] != 0).astype(int)
MaskOf(permh) == [c \in DOMAIN permh |-> IF permh[c] # 0 THEN 1 ELSE 0]

\* mm.grids[name] for the parameter's name: the very array the parameter
\* holds as self.array, or an array of its own with the content own
SharedGrid == [shared |-> TRUE, own |-> <<>>]
OwnGrid(content) == [shared |-> FALSE, own |-> content]

\* MartheModel.__init__ from the reference grid read from the permh file;
\* x_vals / y_vals are the cell-centre coordinates of the columns / rows;
\* no grid is held yet under the parameter's name
NewModel(nl, nr, nc, permh) ==
    [nlay |-> nl, nrow |-> nr, ncol |-> nc,
     x_vals |-> [c \in 0..(nc - 1) |-> PyFloat(100000 * c + 50000)],
     y_vals |-> [r \in 0..(nr - 1) |-> PyFloat(100000 * (nr - 1 - r) + 50000)],
     permh |-> permh,
     imask |-> MaskOf(permh),
     grid |-> OwnGrid(<<>>)]

\* write_grid(name): the array handed to the grid file writer is
\* mm.grids[name]; arr is the content of the parameter's array
write_grid(m, arr) == IF m.grid.shared THEN arr ELSE m.grid.own

\* reference grids (the permh file): all cells active; the first cell and the
\* whole last layer inactive
RefGridFull(nl, nr, nc) ==
    [c \in (0..(nl - 1)) \X (0..(nr - 1)) \X (0..(nc - 1)) |-> 7000]
RefGridPartial(nl, nr, nc) ==
    [c \in (0..(nl - 1)) \X (0..(nr - 1)) \X (0..(nc - 1)) |->
        IF c = <<0, 0, 0>> \/ c[1] = nl - 1 THEN 0 ELSE 7000]

----------------------------------------------------------------------------
(* Arguments of set_izone *)

NoneArg == [kind |-> "None"]
OtherArg == [kind |-> "other"]
NdArray(shape, data) == [kind |-> "ndarray", shape |-> shape, data |-> data]

ShapeCells(sh) == (0..(sh[1] - 1)) \X (0..(sh[2] - 1)) \X (0..(sh[3] - 1))

\* the docstring's example: -1 everywhere, 1 in the first layer
ArrExample(sh) == NdArray(sh, [c \in ShapeCells(sh) |-> IF c[1] = 0 THEN 1 ELSE -1])
\* two piecewise-constant zones per layer: upper rows -1, lower rows -2
ArrBands(sh) == NdArray(sh, [c \in ShapeCells(sh) |-> IF 2 * c[2] < sh[2] THEN -1 ELSE -2])
\* first layer: positive zones 2 (first column) and 1; other layers: 0 in the
\* first row, -2 below
ArrMixed(sh) ==
    NdArray(sh, [c \in ShapeCells(sh) |->
        IF c[1] = 0 THEN (IF c[3] = 0 THEN 2 ELSE 1)
        ELSE (IF c[2] = 0 THEN 0 ELSE -2)])
\* zone 1 everywhere
ArrOnes(sh) == NdArray(sh, [c \in ShapeCells(sh) |-> 1])

IzoneArgs(m) ==
    {NoneArg, OtherArg,
     ArrExample(Shape(m)), ArrBands(Shape(m)), ArrMixed(Shape(m)),
     ArrBands(<<m.nlay, m.nrow, m.ncol + 1>>)}

----------------------------------------------------------------------------
(* Data frames *)

\* pp_dic[lay] = None
NoneDf == [kind |-> "None"]
\* a pilot-point frame: its rows and what its index holds ("name" after
\* set_index('name'), "range" for the default 0..n-1 index of read_csv)
PPDf(index, rows) == [kind |-> "df", index |-> index, rows |-> rows]

\* a float64 column holds floats only: one non-integer upcasts the column
Upcast(rows) ==
    IF \E i \in 1..Len(rows) : rows[i].value.ty # "int"
    THEN [i \in 1..Len(rows) |-> [rows[i] EXCEPT !.value = ToFloat(@)]]
    ELSE rows

ZpcNames(df) == {df[i].name : i \in 1..Len(df)}
ZpcRow(df, name) == df[CHOOSE i \in 1..Len(df) : df[i].name = name]

\* np.unique(izone[lay,:,:])
LayerZones(m, iz, lay) == {iz[<<lay, r, c>>] : r \in Rows(m), c \in Cols(m)}

\* variant of init_zpc_df that drops the test zone < 0
init_zpc_df_all_zones(m, iz, name, dv) ==
    Upcast(Flatten([l \in 1..m.nlay |->
        LET zones == SortedSeq(LayerZones(m, iz, l - 1))
        IN  [i \in 1..Len(zones) |->
                [name |-> ZPCFMT(name, l - 1, zones[i]), lay |-> l - 1,
                 zone |-> zones[i], value |-> dv]]]))

\* init_zpc_df: one row per layer and negative zone of the layer, in layer
\* order then ascending zone order, each with the default value
init_zpc_df(m, iz, name, dv) ==
    Upcast(Flatten([l \in 1..m.nlay |->
        LET zones == SortedSeq({z \in LayerZones(m, iz, l - 1) : z < 0})
        IN  [i \in 1..Len(zones) |->
                [name |-> ZPCFMT(name, l - 1, zones[i]), lay |-> l - 1,
                 zone |-> zones[i], value |-> dv]]]))

\* pp_dic is a dict: its items in insertion order
PPKeys(pd) == {pd[i].lay : i \in 1..Len(pd)}
PPGet(pd, lay) == pd[CHOOSE i \in 1..Len(pd) : pd[i].lay = lay].df
\* pp_dic[lay] = df
PPSet(pd, lay, df) ==
    IF lay \in PPKeys(pd)
    THEN [i \in 1..Len(pd) |-> IF pd[i].lay = lay THEN [pd[i] EXCEPT !.df = df] ELSE pd[i]]
    ELSE Append(pd, [lay |-> lay, df |-> df])

\* variant of init_pp_dic that drops the test on zones > 0
init_pp_dic_all_layers(m, iz) ==
    [i \in 1..m.nlay |-> [lay |-> i - 1, df |-> NoneDf]]

\* init_pp_dic: a None entry for every layer that has a zone > 0
init_pp_dic(m, iz) ==
    LET lays == SortedSeq({l \in Layers(m) : \E z \in LayerZones(m, iz, l) : z > 0})
    IN  [i \in 1..Len(lays) |-> [lay |-> lays[i], df |-> NoneDf]]

----------------------------------------------------------------------------
(* set_izone *)

\* variant of IzoneDefault that leaves the copy of the mask as it is
IzoneDefault_Unset(m) == [c \in Cells(m) |-> m.imask[c]]
\* izone = imask.copy(); izone[imask == 1] = -1
IzoneDefault(m) == [c \in Cells(m) |-> IF m.imask[c] = 1 THEN -1 ELSE m.imask[c]]

\* variant of IzoneFromArray that copies the array at every cell
IzoneFromArray_NoMask(m, data) == [c \in Cells(m) |-> data[c]]
\* izone = imask.copy(); izone[imask == 1] = data[imask == 1]
IzoneFromArray(m, data) ==
    [c \in Cells(m) |-> IF m.imask[c] = 1 THEN data[c] ELSE m.imask[c]]

\* izone = imask.copy(), all that happens for an argument that is neither
\* None nor an array, and all that has happened when the shape assert fails
IzoneMaskCopy(m) == [c \in Cells(m) |-> m.imask[c]]

\* variant of ImaskAfterSetIzone without the copy: the Zone Map is the mask
ImaskAfterSetIzone_NoCopy(m, iz) == iz
\* self.izone = self.mm.imask.copy(): the Zone Map is an array of its own, and
\* what set_izone writes into it is not written into mm.imask
ImaskAfterSetIzone(m, iz) == m.imask

\* assert izone.shape == (nlay, nrow, ncol)
ShapeOk(m, arg) == arg.shape = Shape(m)

\* the parameter after set_izone(arg); exc names the exception raised
set_izone_result(m, self, arg) ==
    IF arg.kind = "ndarray" /\ ~ShapeOk(m, arg)
    THEN [self EXCEPT !.izone = IzoneMaskCopy(m), !.exc = "AssertionError"]
    ELSE LET iz == CASE arg.kind = "None" -> IzoneDefault(m)
                     [] arg.kind = "ndarray" -> IzoneFromArray(m, arg.data)
                     [] OTHER -> IzoneMaskCopy(m)
         IN  [self EXCEPT !.izone = iz,
                          !.zpc_df = init_zpc_df(m, iz, ParName, self.default_value),
                          !.pp_dic = init_pp_dic(m, iz),
                          !.exc = "none"]

----------------------------------------------------------------------------
(* Numbers as text *)

DigitValue(ch) == CHOOSE d \in 0..9 : Digit(d) = ch

RECURSIVE DigitsToInt(_)
DigitsToInt(s) ==
    IF s = <<>> THEN 0 ELSE 10 * DigitsToInt(SubSeq(s, 1, Len(s) - 1)) + DigitValue(s[Len(s)])

RECURSIVE Zeros(_)
Zeros(n) == IF n <= 0 THEN <<>> ELSE <<"0">> \o Zeros(n - 1)

NanText == <<"N", "A", "N">>

\* str(n) of an integer n, as to_string and IFMT write the lay and zone columns
IntText(n) == IF n < 0 THEN <<"-">> \o Decimal(-n) ELSE Decimal(n)

\* FFMT: '{0:<20.10E} '.format(float(x)): one digit, a point, ten digits, E,
\* the exponent's sign and at least two exponent digits.  x.v counts
\* thousandths, so the decimal exponent is the number of digits of x.v minus
\* four.  Values of the model have at most ten digits: nothing is rounded off.
FFMT(x) ==
    IF x.ty = "nan" THEN NanText
    ELSE LET d == Decimal(x.v)
             m == SubSeq(d \o Zeros(11), 1, 11)
             e == IF x.v = 0 THEN 0 ELSE Len(d) - 4
         IN  <<m[1], ".">> \o SubSeq(m, 2, 11)
                 \o <<"E", IF e < 0 THEN "-" ELSE "+">> \o Fmt02d(Abs(e))

IsFloatText(t) == \E i \in 1..Len(t) : t[i] = "E"

\* the number pandas.read_csv parses from a numeric field
ParseNumber(t) ==
    IF t = NanText THEN NaN
    ELSE IF IsFloatText(t)
    THEN LET m == <<t[1]>> \o SubSeq(t, 3, 12)
             e == (IF t[14] = "-" THEN -1 ELSE 1) * DigitsToInt(SubSeq(t, 15, Len(t)))
         IN  PyFloat(DigitsToInt(SubSeq(m \o Zeros(e + 4 - 11), 1, e + 4)))
    ELSE IF t[1] = "-"
    THEN PyInt(-1000 * DigitsToInt(Tail(t)))
    ELSE PyInt(1000 * DigitsToInt(t))

\* the values read_csv gives one column: float64 as soon as one field is
\* not an integer
ParseColumn(ts) ==
    LET vs == [i \in 1..Len(ts) |-> ParseNumber(ts[i])]
    IN  IF \E i \in 1..Len(vs) : vs[i].ty # "int"
        THEN [i \in 1..Len(vs) |-> ToFloat(vs[i])]
        ELSE vs

----------------------------------------------------------------------------
(* set_zpc_values *)

NumberArg(x) == [kind |-> "number", num |-> x]
DictArg(items) == [kind |-> "dict", items |-> items]
\* a dict item lay: number, lay: {zone: number, ...} or lay: anything else
LayNumber(lay, x) == [lay |-> lay, kind |-> "number", num |-> x, sub |-> <<>>]
LayDict(lay, sub) == [lay |-> lay, kind |-> "dict", num |-> NaN, sub |-> sub]
\* lay: a value that is neither a number nor a dict (a string, a list)
LayOther(lay) == [lay |-> lay, kind |-> "other", num |-> NaN, sub |-> <<>>]

\* '{0}_l{1:02d}'.format(self.name, int(lay+1))
LayerPrefix(name, lay) == name \o <<"_", "l">> \o Fmt02d(lay + 1)

\* variant of SetLayerValue that ignores the layer prefix
SetLayerValue_AllRows(df, name, lay, x) ==
    Upcast([i \in 1..Len(df) |-> [df[i] EXCEPT !.value = x]])
\* idx = [n.startswith(prefix) for n in zpc_df.index]; zpc_df.loc[idx,'value'] = value
SetLayerValue(df, name, lay, x) ==
    Upcast([i \in 1..Len(df) |->
        IF StartsWith(df[i].name, LayerPrefix(name, lay))
        THEN [df[i] EXCEPT !.value = x] ELSE df[i]])

RECURSIVE set_zpc_items(_, _)
\* the loop over the dict's layers; a nested dict with a zone in it raises
\* NameError ('zone' is not defined: the loop variable is 'zones')
set_zpc_items(df, items) ==
    IF items = <<>> THEN [zpc_df |-> df, exc |-> "none"]
    ELSE LET it == Head(items)
         IN  CASE it.kind = "number" ->
                    set_zpc_items(SetLayerValue(df, ParName, it.lay, it.num), Tail(items))
               [] it.kind = "dict" /\ it.sub # <<>> ->
                    [zpc_df |-> df, exc |-> "NameError"]
               [] OTHER -> set_zpc_items(df, Tail(items))

\* set_zpc_values(values): the new table, the exception, what is printed
set_zpc_values_result(df, values) ==
    CASE values.kind = "number" ->
            \* self.zpc_df['values'] = value: 'value' is not defined
            [zpc_df |-> df, exc |-> "NameError", printed |-> <<>>]
      [] values.kind = "dict" ->
            LET r == set_zpc_items(df, values.items)
            IN  [zpc_df |-> r.zpc_df, exc |-> r.exc, printed |-> <<>>]
      [] OTHER ->
            [zpc_df |-> df, exc |-> "none",
             printed |-> <<[what |-> "Invalid input", names |-> <<>>]>>]

----------------------------------------------------------------------------
(* set_array, set_array_from_zpc_df *)

ArrayArg(vals) == [ty |-> "ndarray", vals |-> vals]

\* the cells of a layer selected by izone[lay,:,:] == zone, in row-major order
RECURSIVE CellSeq(_, _, _)
CellSeq(cells, ncol, acc) ==
    IF cells = {} THEN acc
    ELSE LET c == CHOOSE x \in cells :
                    \A y \in cells : x[2] * ncol + x[3] <= y[2] * ncol + y[3]
         IN  CellSeq(cells \ {c}, ncol, Append(acc, c))

\* idx = izone[lay,:,:] == zone
ZoneCells(m, iz, lay, zone) == {c \in Cells(m) : c[1] = lay /\ iz[c] = zone}

\* variant of ValueTypeOk that accepts any value for any zone
ValueTypeOk_Any(zone, values) == TRUE
\* zone < 0: assert isinstance(values, float); zone > 0: assert isinstance(values, np.ndarray)
ValueTypeOk(zone, values) ==
    (zone < 0 => IsFloat(values)) /\ (zone > 0 => values.ty = "ndarray")

\* set_array(lay, zone, values): the new array and the exception
set_array_result(m, iz, arr, lay, zone, values) ==
    IF lay \notin Layers(m) \/ zone \notin {iz[c] : c \in Cells(m)}
          \/ ~ValueTypeOk(zone, values)
    THEN [array |-> arr, exc |-> "AssertionError"]
    ELSE LET sel == CellSeq(ZoneCells(m, iz, lay, zone), m.ncol, <<>>)
         IN  IF values.ty = "ndarray"
             THEN \* as many values as selected cells, or one value for all of them
                  IF Len(values.vals) = Len(sel) \/ Len(values.vals) = 1
                  THEN [array |-> [c \in Cells(m) |->
                            IF c \in Range(sel)
                            THEN ToFloat(values.vals[
                                    IF Len(values.vals) = 1 THEN 1
                                    ELSE CHOOSE i \in 1..Len(sel) : sel[i] = c])
                            ELSE arr[c]],
                        exc |-> "none"]
                  ELSE [array |-> arr, exc |-> "ValueError"]
             ELSE [array |-> [c \in Cells(m) |->
                        IF c \in Range(sel) THEN ToFloat(values) ELSE arr[c]],
                   exc |-> "none"]

RECURSIVE set_array_rows(_, _, _, _)
\* the loop of set_array_from_zpc_df over the table's rows: the first
\* set_array that raises ends it
set_array_rows(m, iz, arr, rows) ==
    IF rows = <<>> THEN [array |-> arr, exc |-> "none"]
    ELSE LET r == set_array_result(m, iz, arr, Head(rows).lay, Head(rows).zone,
                                   Head(rows).value)
         IN  IF r.exc # "none" THEN r
             ELSE set_array_rows(m, iz, r.array, Tail(rows))

set_array_from_zpc_df_result(m, iz, arr, df) == set_array_rows(m, iz, arr, df)

----------------------------------------------------------------------------
(* Pilot points *)

\* '{0}_l{1:02d}_z{2:02d}'.format(name, lay, zone) then '{0}_{1:03d}'.format(prefix, id)
PPName(name, lay, zone, id) ==
    name \o <<"_", "l">> \o Fmt02d(lay) \o <<"_", "z">> \o Fmt02d(zone)
         \o <<"_">> \o Fmt03d(id)

\* variant of PPSelect that strides over the rows only
PPSelect_RowsOnly(m, iz, lay, n) ==
    {c \in Cells(m) : c[1] = lay /\ c[2] % n = 0 /\ iz[c] = 1}
\* variant of PPSelect that keeps the cells of every positive zone
PPSelect_AnyPositive(m, iz, lay, n) ==
    {c \in Cells(m) : c[1] = lay /\ c[2] % n = 0 /\ c[3] % n = 0 /\ iz[c] > 0}
\* pp_select: 1 on the lattice range(0,nrow,n) x range(0,ncol,n), reset to 0
\* where izone[lay,:,:] != 1
PPSelect(m, iz, lay, n) ==
    {c \in Cells(m) : c[1] = lay /\ c[2] % n = 0 /\ c[3] % n = 0 /\ iz[c] = 1}

\* pp_df: one row per selected cell, named by its rank, at the cell's centre
PPRows(m, sel, name, lay, dv) ==
    [i \in 1..Len(sel) |->
        [name |-> PPName(name, lay, 1, i - 1),
         x |-> m.x_vals[sel[i][3]], y |-> m.y_vals[sel[i][2]],
         zone |-> 1, value |-> dv]]

\* pp_from_rgrid(lay, n_cell)
pp_from_rgrid_result(m, iz, pd, dv, lay, n) ==
    IF lay \notin Layers(m) THEN [pp_dic |-> pd, exc |-> "IndexError"]
    ELSE IF n = 0 THEN [pp_dic |-> pd, exc |-> "ValueError"]
    ELSE LET sel == CellSeq(PPSelect(m, iz, lay, n), m.ncol, <<>>)
         IN  [pp_dic |-> PPSet(pd, lay, PPDf("name", PPRows(m, sel, ParName, lay, dv))),
              exc |-> "none"]

\* the points of the shape file given to pp_df_from_shp: the centres of the
\* first and of the last cell of a layer
ShpCells(m, lay) == <<(<<lay, 0, 0>>), (<<lay, m.nrow - 1, m.ncol - 1>>)>>

\* pp_utils.ppoints_from_shp: one row per point of the shape file within the
\* zone, named by the prefix and a running index
ppoints_from_shp(m, iz, prefix, lay, zone, value) ==
    LET pts == SelectSeq(ShpCells(m, lay), LAMBDA c : iz[c] = zone)
    IN  PPDf("name", [i \in 1..Len(pts) |->
            [name |-> prefix \o <<"_">> \o Fmt03d(i - 1),
             x |-> m.x_vals[pts[i][3]], y |-> m.y_vals[pts[i][2]],
             zone |-> zone, value |-> value]])

\* pp_df_from_shp(shp_path, lay, zone): value is the default value
pp_df_from_shp_result(m, iz, pd, dv, lay, zone) ==
    PPSet(pd, lay,
          ppoints_from_shp(m, iz, <<"p", "p", "_">> \o ParName \o <<"_", "l">> \o Fmt02d(lay),
                           lay, zone, dv))

\* pp_utils.fac2real(pp_file, factors_file): the interpolated values, one per
\* cell of the zone; a layer whose table is still None has no points to
\* interpolate from
fac2real(pp_df, ncells, x) ==
    IF pp_df.kind = "None" THEN [vals |-> <<>>, exc |-> "Exception"]
    ELSE [vals |-> [i \in 1..ncells |-> x], exc |-> "none"]

RECURSIVE interp_zones(_, _, _, _, _, _, _)
\* the loop of interp_from_factors over the positive zones of a layer
interp_zones(m, iz, arr, pp_df, lay, zones, x) ==
    IF zones = <<>> THEN [array |-> arr, exc |-> "none"]
    ELSE LET sel == CellSeq(ZoneCells(m, iz, lay, Head(zones)), m.ncol, <<>>)
             k == fac2real(pp_df, Len(sel), x)
         IN  IF k.exc # "none" THEN [array |-> arr, exc |-> k.exc]
             ELSE interp_zones(m, iz,
                      [c \in Cells(m) |->
                          IF c \in Range(sel)
                          THEN ToFloat(k.vals[CHOOSE i \in 1..Len(sel) : sel[i] = c])
                          ELSE arr[c]],
                      pp_df, lay, Tail(zones), x)

RECURSIVE interp_items(_, _, _, _, _)
\* interp_from_factors: the loop over the keys of pp_dic
interp_items(m, iz, arr, items, x) ==
    IF items = <<>> THEN [array |-> arr, exc |-> "none"]
    ELSE LET it == Head(items)
             zones == SortedSeq({z \in LayerZones(m, iz, it.lay) : z > 0})
             r == interp_zones(m, iz, arr, it.df, it.lay, zones, x)
         IN  IF r.exc # "none" THEN r
             ELSE interp_items(m, iz, r.array, Tail(items), x)

----------------------------------------------------------------------------
(* Files *)

NoFile == [exists |-> FALSE, lines |-> <<>>]
File(lines) == [exists |-> TRUE, lines |-> lines]

\* write_zpc_data: to_string(columns=[lay, zone, value], index=True): one
\* line per row: name, lay, zone, FFMT(value); nothing is written for an
\* empty table
write_zpc_data_result(df, file) ==
    IF Len(df) > 0
    THEN File([i \in 1..Len(df) |->
            <<df[i].name, IntText(df[i].lay), IntText(df[i].zone), FFMT(df[i].value)>>])
    ELSE file

\* read_csv(header=None, names=['name','value'], usecols=[0,1]): the value
\* column is the file's second field
ReadColumn(lines) == ParseColumn([i \in 1..Len(lines) |-> lines[i][2]])

\* pd.merge(zpc_df, df, how='left'); value = value_y: the file's value, NaN
\* for a row the file does not name
MergeValue(row, names, vals) ==
    IF \E i \in 1..Len(names) : names[i] = row.name
    THEN vals[CHOOSE i \in 1..Len(names) : names[i] = row.name]
    ELSE NaN

\* zpc_df.index[zpc_df.value == np.nan]
MissingNames(df) ==
    SelectSeq([i \in 1..Len(df) |-> df[i].name],
              LAMBDA n : FloatEq(ZpcRow(df, n).value, NaN))

\* read_zpc_df on a file: the new table, the exception, what is printed
read_zpc_df_result(df, file) ==
    IF ~file.exists THEN [zpc_df |-> df, exc |-> "FileNotFoundError", printed |-> <<>>]
    ELSE IF file.lines = <<>>
    THEN [zpc_df |-> df, exc |-> "EmptyDataError", printed |-> <<>>]
    ELSE
    LET lines == file.lines
        col == ReadColumn(lines)
        known == {i \in 1..Len(lines) : lines[i][1] \in ZpcNames(df)}
        idx == SortedSeq(known)
        parnames == [k \in 1..Len(idx) |-> lines[idx[k]][1]]
        values == [k \in 1..Len(idx) |-> col[idx[k]]]
        not_found == SelectSeq([i \in 1..Len(lines) |-> lines[i][1]],
                               LAMBDA n : n \notin ZpcNames(df))
        merged == Upcast([i \in 1..Len(df) |->
                      [df[i] EXCEPT !.value = MergeValue(df[i], parnames, values)]])
        missing == MissingNames(merged)
    IN  IF parnames = <<>>
        THEN [zpc_df |-> df, exc |-> "none",
              printed |-> <<[what |-> "No parameter values could be found", names |-> <<>>]>>]
        ELSE [zpc_df |-> merged, exc |-> "none",
              printed |->
                (IF not_found # <<>>
                 THEN <<[what |-> "not compatible", names |-> not_found]>> ELSE <<>>)
                \o (IF missing # <<>>
                    THEN <<[what |-> "missing", names |-> missing]>> ELSE <<>>)]

\* PP_FMT: x, y and value through FFMT, zone through IFMT; the first column
\* is the frame's index: the point's name, or the row number of a frame
\* that read_pp_df built
PPLine(df, i) ==
    <<IF df.index = "name" THEN df.rows[i].name ELSE IntText(i - 1),
      FFMT(df.rows[i].x), FFMT(df.rows[i].y), IntText(df.rows[i].zone),
      FFMT(df.rows[i].value)>>

RECURSIVE write_pp_items(_, _)
\* write_pp_df: the loop over pp_dic; a None entry raises AttributeError
\* after its file has been opened for writing (and so emptied)
write_pp_items(items, files) ==
    IF items = <<>> THEN [pp_files |-> files, exc |-> "none"]
    ELSE LET it == Head(items)
         IN  IF it.df.kind = "None"
             THEN [pp_files |-> [files EXCEPT ![it.lay] = File(<<>>)],
                   exc |-> "AttributeError"]
             ELSE write_pp_items(Tail(items),
                    [files EXCEPT ![it.lay] =
                        File([i \in 1..Len(it.df.rows) |-> PPLine(it.df, i)])])

\* read_csv(header=None, names=PP_NAMES): a frame with the default index
ReadPPFile(lines) ==
    PPDf("range", [i \in 1..Len(lines) |->
        [name |-> lines[i][1], x |-> ParseNumber(lines[i][2]),
         y |-> ParseNumber(lines[i][3]), zone |-> ParseNumber(lines[i][4]).v \div 1000,
         value |-> ParseNumber(lines[i][5])]])

RECURSIVE read_pp_items(_, _, _)
\* read_pp_df: the loop over pp_dic's keys; rest are the keys still to read
read_pp_items(pd, rest, files) ==
    IF rest = <<>> THEN [pp_dic |-> pd, exc |-> "none"]
    ELSE LET f == files[Head(rest).lay]
         IN  IF ~f.exists THEN [pp_dic |-> pd, exc |-> "FileNotFoundError"]
             ELSE IF f.lines = <<>> THEN [pp_dic |-> pd, exc |-> "EmptyDataError"]
             ELSE read_pp_items(PPSet(pd, Head(rest).lay, ReadPPFile(f.lines)),
                                Tail(rest), files)

----------------------------------------------------------------------------
(* State *)

VARIABLES
    mm,             \* the MartheModel: nlay, nrow, ncol, x_vals, y_vals, imask
    default_value,  \* MartheParam.default_value
    izone,          \* MartheParam.izone, the Zone Map
    zpc_df,         \* MartheParam.zpc_df, the ZPC Table: rows name, lay, zone, value
    pp_dic,         \* MartheParam.pp_dic, the Pilot-Point Table Set
    array,          \* MartheParam.array, the grid array
    zpc_file,       \* the file param/<name>_zpc.dat
    pp_files,       \* the files param/pp_<name>_l<lay+1>.dat, by layer
    last,           \* the last call: its name, the exception it raised, what it printed
    calls,          \* the names of the calls made since construction, in order
    scen            \* progress through set_izone(); set_zpc_values({0:1e-3,1:2e-3});
                    \* set_array_from_zpc_df()

vars == <<mm, default_value, izone, zpc_df, pp_dic, array, zpc_file, pp_files,
          last, calls, scen>>

Call(op, exc, printed) == [op |-> op, exc |-> exc, printed |-> printed, args |-> <<>>]
\* a call whose arguments are kept
CallArgs(op, exc, args) == [op |-> op, exc |-> exc, printed |-> <<>>, args |-> args]

\* add_param without an array: the mask as floats, nan within the mask
ArrayFromMask(m) == [c \in Cells(m) |-> IF m.imask[c] # 0 THEN NaN ELSE PyFloat(0)]
\* default_value: a float or an int
DefaultValues == {PyFloat(5000), PyInt(5000)}

\* a pilot-point file left by an earlier run
OldPPFile == File(<<(<<(<<"o", "l", "d">>), FFMT(PyFloat(50000)), FFMT(PyFloat(50000)),
                       IntText(1), FFMT(PyFloat(4000))>>)>>)

\* MartheModel(rma_path) then add_param(name, default_value, izone, array):
\* MartheParam.__init__ ends with set_izone(izone)
InitParam(m, dv, arg, arr, ppf) ==
    LET r == set_izone_result(m,
                 [default_value |-> dv, izone |-> IzoneMaskCopy(m), zpc_df |-> <<>>,
                  pp_dic |-> <<>>, exc |-> "none"], arg)
    IN  /\ mm = [m EXCEPT !.imask = ImaskAfterSetIzone(m, r.izone), !.grid = SharedGrid]
        /\ default_value = dv
        /\ izone = r.izone
        /\ zpc_df = r.zpc_df
        /\ pp_dic = r.pp_dic
        /\ array = arr
        /\ zpc_file = NoFile
        /\ pp_files = [l \in Layers(m) |-> IF l = 0 THEN ppf ELSE NoFile]
        /\ last = Call("__init__", "none", <<>>)
        /\ calls = <<>>
        /\ scen = IF arg = NoneArg THEN 1 ELSE 0

RefGrids(nl, nr, nc) == {RefGridFull(nl, nr, nc), RefGridPartial(nl, nr, nc)}

\* the zonations the parameter is made with: none, the docstring's example,
\* zones of both signs (a wrong shape fails the constructor's assert and no
\* parameter is made)
InitIzoneArgs(m) == {NoneArg, ArrExample(Shape(m)), ArrMixed(Shape(m))}

Init ==
    \E permh \in RefGrids(MaxLay, MaxRow, MaxCol), dv \in DefaultValues :
        LET m == NewModel(MaxLay, MaxRow, MaxCol, permh)
        IN  \E arg \in InitIzoneArgs(m) :
                InitParam(m, dv, arg, ArrayFromMask(m), OldPPFile)

----------------------------------------------------------------------------
(* Calls *)

Self == [default_value |-> default_value, izone |-> izone, zpc_df |-> zpc_df,
         pp_dic |-> pp_dic, exc |-> "none"]

set_izone(arg) ==
    /\ Len(calls) < MaxOps
    /\ LET r == set_izone_result(mm, Self, arg)
       IN  /\ izone' = r.izone
           /\ zpc_df' = r.zpc_df
           /\ pp_dic' = r.pp_dic
           /\ mm' = [mm EXCEPT !.imask = ImaskAfterSetIzone(mm, r.izone)]
           /\ last' = CallArgs("set_izone", r.exc, <<arg>>)
           /\ scen' = IF arg = NoneArg THEN 1 ELSE 0
    /\ calls' = Append(calls, "set_izone")
    /\ UNCHANGED <<default_value, array, zpc_file, pp_files>>

\* the per-layer edit {0: 1e-3, 1: 2e-3}
ScenarioValues == DictArg(<<LayNumber(0, PyFloat(1)), LayNumber(1, PyFloat(2))>>)

ZpcValueArgs ==
    {NumberArg(PyFloat(3000)),
     ScenarioValues,
     DictArg(<<LayNumber(0, PyInt(7000))>>),
     DictArg(<<LayDict(0, <<[zone |-> -1, num |-> PyFloat(6000)]>>)>>),
     DictArg(<<LayOther(0)>>),
     DictArg(<<LayNumber(0, PyInt(7000)), LayOther(1)>>),
     [kind |-> "other"]}

set_zpc_values(values) ==
    /\ Len(calls) < MaxOps
    /\ LET r == set_zpc_values_result(zpc_df, values)
       IN  /\ zpc_df' = r.zpc_df
           /\ last' = Call("set_zpc_values", r.exc, r.printed)
    /\ scen' = IF scen = 1 /\ values = ScenarioValues THEN 2 ELSE 0
    /\ calls' = Append(calls, "set_zpc_values")
    /\ UNCHANGED <<mm, default_value, izone, pp_dic, array, zpc_file, pp_files>>

set_array_from_zpc_df ==
    /\ Len(calls) < MaxOps
    /\ LET r == set_array_from_zpc_df_result(mm, izone, array, zpc_df)
       IN  /\ array' = r.array
           /\ last' = Call("set_array_from_zpc_df", r.exc, <<>>)
    /\ scen' = IF scen = 2 THEN 3 ELSE 0
    /\ calls' = Append(calls, "set_array_from_zpc_df")
    /\ UNCHANGED <<mm, default_value, izone, zpc_df, pp_dic, zpc_file, pp_files>>

\* the arguments given to set_array: zones of either sign and 0, each absent
\* from some Zone Map of the model; a float, an array of one value per cell
\* of a layer; the first layer, and for one call the first index past the
\* last layer
SetArrayZones == {-1, 0, 1}
SetArrayValues(m) ==
    {PyFloat(2000), ArrayArg([i \in 1..(m.nrow * m.ncol) |-> PyFloat(1000 * i)])}
SetArrayArgs(m) ==
    {<<0, zone, values>> : zone \in SetArrayZones, values \in SetArrayValues(m)}
        \cup {<<m.nlay, -1, PyFloat(2000)>>}

set_array(lay, zone, values) ==
    /\ Len(calls) < MaxOps
    /\ LET r == set_array_result(mm, izone, array, lay, zone, values)
       IN  /\ array' = r.array
           /\ last' = CallArgs("set_array", r.exc, <<lay, zone, values>>)
    /\ scen' = 0
    /\ calls' = Append(calls, "set_array")
    /\ UNCHANGED <<mm, default_value, izone, zpc_df, pp_dic, zpc_file, pp_files>>

\* the value the interpolation gives the cells of a zone
KrigedValues == {PyFloat(9000)}

interp_from_factors(x) ==
    /\ Len(calls) < MaxOps
    /\ LET r == interp_items(mm, izone, array, pp_dic, x)
       IN  /\ array' = r.array
           /\ last' = Call("interp_from_factors", r.exc, <<>>)
    /\ scen' = 0
    /\ calls' = Append(calls, "interp_from_factors")
    /\ UNCHANGED <<mm, default_value, izone, zpc_df, pp_dic, zpc_file, pp_files>>

\* the zonations given when the parameter is added again: zones of both
\* signs, and an array of another shape
AddParamIzoneArgs(m) == {ArrMixed(Shape(m)), ArrBands(<<m.nlay, m.nrow, m.ncol + 1>>)}

\* mm.add_param(name, default_value, izone) for the name of the parameter:
\* grids[name] is a new array made from the mask, and the new MartheParam
\* takes the place of the old one in mm.param; when the constructor's
\* set_izone raises, grids[name] is already the new array and mm.param[name]
\* is still the old parameter, which holds the old array
add_param(dv, arg) ==
    /\ Len(calls) < MaxOps
    /\ LET r == set_izone_result(mm,
                    [default_value |-> dv, izone |-> IzoneMaskCopy(mm), zpc_df |-> <<>>,
                     pp_dic |-> <<>>, exc |-> "none"], arg)
       IN  /\ last' = Call("add_param", r.exc, <<>>)
           /\ IF r.exc = "none"
              THEN /\ mm' = [mm EXCEPT !.imask = ImaskAfterSetIzone(mm, r.izone),
                                       !.grid = SharedGrid]
                   /\ default_value' = dv
                   /\ izone' = r.izone
                   /\ zpc_df' = r.zpc_df
                   /\ pp_dic' = r.pp_dic
                   /\ array' = ArrayFromMask(mm)
                   /\ scen' = IF arg = NoneArg THEN 1 ELSE 0
              ELSE /\ mm' = [mm EXCEPT !.grid = OwnGrid(ArrayFromMask(mm))]
                   /\ scen' = 0
                   /\ UNCHANGED <<default_value, izone, zpc_df, pp_dic, array>>
    /\ calls' = Append(calls, "add_param")
    /\ UNCHANGED <<zpc_file, pp_files>>

\* the grid file of the parameter (<mlname>.<name>), as read_grid reads it
GridFile(m) == [c \in Cells(m) |-> PyFloat(IF m.permh[c] # 0 THEN 7000 ELSE 0)]

\* mm.load_grid(name): grids[name] is rebound to the array read from the
\* grid file; the parameter keeps the array it had
load_grid ==
    /\ Len(calls) < MaxOps
    /\ mm' = [mm EXCEPT !.grid = OwnGrid(GridFile(mm))]
    /\ last' = Call("load_grid", "none", <<>>)
    /\ scen' = 0
    /\ calls' = Append(calls, "load_grid")
    /\ UNCHANGED <<default_value, izone, zpc_df, pp_dic, array, zpc_file, pp_files>>

write_zpc_data ==
    /\ Len(calls) < MaxOps
    /\ zpc_file' = write_zpc_data_result(zpc_df, zpc_file)
    /\ last' = Call("write_zpc_data", "none", <<>>)
    /\ scen' = 0
    /\ calls' = Append(calls, "write_zpc_data")
    /\ UNCHANGED <<mm, default_value, izone, zpc_df, pp_dic, array, pp_files>>

\* names a file given to read_zpc_df may hold
KnownName1 == ZPCFMT(ParName, 0, -1)
KnownName3 == ZPCFMT(ParName, 1, -1)
OtherName == <<"q">>

\* files given by name to read_zpc_df(filename)
GivenZpcFiles ==
    {File(<<(<<KnownName1, FFMT(PyFloat(3000))>>)>>),
     File(<<(<<KnownName1, FFMT(PyFloat(3000))>>), (<<OtherName, FFMT(PyFloat(8000))>>)>>),
     File(<<(<<OtherName, FFMT(PyFloat(8000))>>)>>),
     File(<<(<<KnownName1, FFMT(PyFloat(3000))>>), (<<KnownName3, IntText(4)>>)>>)}

\* read_zpc_df(filename): file is the content of the file named
ReadZpc(file, default) ==
    /\ Len(calls) < MaxOps
    /\ LET r == read_zpc_df_result(zpc_df, file)
       IN  /\ zpc_df' = r.zpc_df
           /\ last' = Call(IF default THEN "read_zpc_df" ELSE "read_zpc_df(filename)",
                           r.exc, r.printed)
    /\ scen' = 0
    /\ calls' = Append(calls, "read_zpc_df")
    /\ UNCHANGED <<mm, default_value, izone, pp_dic, array, zpc_file, pp_files>>

\* read_zpc_df(): the default file, the one write_zpc_data() writes
read_zpc_df == ReadZpc(zpc_file, TRUE)
read_zpc_df_named(file) == ReadZpc(file, FALSE)

pp_from_rgrid(lay, n_cell) ==
    /\ Len(calls) < MaxOps
    /\ LET r == pp_from_rgrid_result(mm, izone, pp_dic, default_value, lay, n_cell)
       IN  /\ pp_dic' = r.pp_dic
           /\ last' = CallArgs("pp_from_rgrid", r.exc, <<lay, n_cell>>)
    /\ scen' = 0
    /\ calls' = Append(calls, "pp_from_rgrid")
    /\ UNCHANGED <<mm, default_value, izone, zpc_df, array, zpc_file, pp_files>>

pp_df_from_shp(lay, zone) ==
    /\ Len(calls) < MaxOps
    /\ pp_dic' = pp_df_from_shp_result(mm, izone, pp_dic, default_value, lay, zone)
    /\ last' = Call("pp_df_from_shp", "none", <<>>)
    /\ scen' = 0
    /\ calls' = Append(calls, "pp_df_from_shp")
    /\ UNCHANGED <<mm, default_value, izone, zpc_df, array, zpc_file, pp_files>>

write_pp_df ==
    /\ Len(calls) < MaxOps
    /\ LET r == write_pp_items(pp_dic, pp_files)
       IN  /\ pp_files' = r.pp_files
           /\ last' = Call("write_pp_df", r.exc, <<>>)
    /\ scen' = 0
    /\ calls' = Append(calls, "write_pp_df")
    /\ UNCHANGED <<mm, default_value, izone, zpc_df, pp_dic, array, zpc_file>>

read_pp_df ==
    /\ Len(calls) < MaxOps
    /\ LET r == read_pp_items(pp_dic, pp_dic, pp_files)
       IN  /\ pp_dic' = r.pp_dic
           /\ last' = Call("read_pp_df", r.exc, <<>>)
    /\ scen' = 0
    /\ calls' = Append(calls, "read_pp_df")
    /\ UNCHANGED <<mm, default_value, izone, zpc_df, array, zpc_file, pp_files>>

\* the strides given to pp_from_rgrid on the grids of Init
Strides == {1, 2}

Next ==
    \/ \E arg \in IzoneArgs(mm) : set_izone(arg)
    \/ \E values \in ZpcValueArgs : set_zpc_values(values)
    \/ \E a \in SetArrayArgs(mm) : set_array(a[1], a[2], a[3])
    \/ set_array_from_zpc_df
    \/ \E x \in KrigedValues : interp_from_factors(x)
    \/ \E dv \in DefaultValues, arg \in AddParamIzoneArgs(mm) : add_param(dv, arg)
    \/ load_grid
    \/ write_zpc_data
    \/ read_zpc_df
    \/ \E file \in GivenZpcFiles : read_zpc_df_named(file)
    \/ \E lay \in Layers(mm), n_cell \in Strides : pp_from_rgrid(lay, n_cell)
    \/ \E lay \in Layers(mm) : pp_df_from_shp(lay, 1)
    \/ write_pp_df
    \/ read_pp_df

Spec == Init /\ [][Next]_vars

\* a single-layer grid of any size up to MaxSide, every cell active, the
\* parameter made with zone 1 everywhere
InitRGrid ==
    \E nr \in 1..MaxSide, nc \in 1..MaxSide, dv \in DefaultValues :
        LET m == NewModel(1, nr, nc, RefGridFull(1, nr, nc))
        IN  InitParam(m, dv, ArrOnes(Shape(m)), ArrayFromMask(m), OldPPFile)

\* the calls that read or write the Pilot-Point Table Set
NextRGrid ==
    \/ \E arg \in IzoneArgs(mm) : set_izone(arg)
    \/ \E lay \in Layers(mm), n_cell \in 1..MaxStride : pp_from_rgrid(lay, n_cell)
    \/ \E lay \in Layers(mm) : pp_df_from_shp(lay, 1)
    \/ write_pp_df
    \/ read_pp_df

SpecRGrid == InitRGrid /\ [][NextRGrid]_vars

\* a single-layer grid, every cell active and in zone 1, whose pilot points
\* pp_from_rgrid has placed and write_pp_df has written to the layer's file
InitPP ==
    \E nr \in 1..MaxSide, nc \in 1..MaxSide, dv \in DefaultValues, n \in 1..MaxStride :
        LET m == NewModel(1, nr, nc, RefGridFull(1, nr, nc))
            iz == IzoneFromArray(m, ArrOnes(Shape(m)).data)
            pd == pp_from_rgrid_result(m, iz, init_pp_dic(m, iz), dv, 0, n).pp_dic
        IN  /\ mm = [m EXCEPT !.grid = SharedGrid]
            /\ default_value = dv
            /\ izone = iz
            /\ zpc_df = init_zpc_df(m, iz, ParName, dv)
            /\ pp_dic = pd
            /\ array = ArrayFromMask(m)
            /\ zpc_file = NoFile
            /\ pp_files = write_pp_items(pd, [l \in Layers(m) |-> NoFile]).pp_files
            /\ last = Call("write_pp_df", "none", <<>>)
            /\ calls = <<>>
            /\ scen = 0

SpecPP == InitPP /\ [][NextRGrid]_vars

\* the grid of the end-to-end scenario: 2 layers of 4 x 4 cells, all active
InitScenario ==
    \E dv \in DefaultValues :
        LET m == NewModel(2, 4, 4, RefGridFull(2, 4, 4))
        IN  \E arg \in InitIzoneArgs(m) :
                InitParam(m, dv, arg, ArrayFromMask(m), OldPPFile)

SpecScenario == InitScenario /\ [][Next]_vars

\* a grid of DeepLay layers of one cell, every cell active, the parameter made
\* with the default zonation: one ZPC row per layer
InitDeep ==
    \E dv \in DefaultValues :
        LET m == NewModel(DeepLay, 1, 1, RefGridFull(DeepLay, 1, 1))
        IN  InitParam(m, dv, NoneArg, ArrayFromMask(m), OldPPFile)

\* the layers named by the per-layer edits made on that grid: the first ten
\* and the last two
DeepKeys(m) == {l \in Layers(m) : l < 10 \/ l >= m.nlay - 2}
\* the per-layer edits {lay: 1e-3} and {lay: 2e-3}
DeepValueArgs(m) ==
    {DictArg(<<LayNumber(l, x)>>) : l \in DeepKeys(m), x \in {PyFloat(1), PyFloat(2)}}

NextDeep ==
    \/ \E values \in DeepValueArgs(mm) : set_zpc_values(values)
    \/ set_izone(NoneArg)

SpecDeep == InitDeep /\ [][NextDeep]_vars

----------------------------------------------------------------------------
(* Properties *)

\* the same number (nan counts as the same value as nan)
NumEq(a, b) == (a.ty = "nan" /\ b.ty = "nan") \/ FloatEq(a, b)

\* the (layer, zone) pairs of the negative zones of the Zone Map
NegPairs == {<<c[1], izone[c]>> : c \in {d \in Cells(mm) : izone[d] < 0}}
\* the layers of the Zone Map with a positive zone
PosLayers == {c[1] : c \in {d \in Cells(mm) : izone[d] > 0}}
ActiveLayers == {c[1] : c \in {d \in Cells(mm) : mm.imask[d] = 1}}
SetIzoneDone == last.op \in {"__init__", "set_izone"} /\ last.exc = "none"
FileNames(file) == {file.lines[i][1] : i \in 1..Len(file.lines)}
FileValue(file, name) ==
    ParseNumber(file.lines[CHOOSE i \in 1..Len(file.lines) : file.lines[i][1] = name][2])
Printed(call, what) ==
    UNION {Range(call.printed[k].names) :
              k \in {j \in 1..Len(call.printed) : call.printed[j].what = what}}
Ceil(a, b) == (a + b - 1) \div b

\* C1: whatever set_izone calls were made (no argument, an array of the grid
\* shape, an array of another shape, any other argument), the Zone Map is 0
\* at every cell where the mask is 0 and non-zero only where the mask is 1.
C1_MaskingInvariant ==
    \A c \in Cells(mm) :
        (mm.imask[c] = 0 => izone[c] = 0) /\ (izone[c] # 0 => mm.imask[c] = 1)

\* set_izone was given an array that is non-zero at an inactive cell
C1_Witness ==
    /\ last.op = "set_izone" /\ last.exc = "none"
    /\ \E c \in Cells(mm) : mm.imask[c] = 0
    /\ \E c \in Cells(mm) : izone[c] = 2

\* C2: right after a successful set_izone the ZPC Table has exactly one row
\* per (layer, negative zone) pair of the Zone Map and no other row, every
\* value is the default value, and for the default zonation (-1 at every
\* active cell) there are as many rows as layers with an active cell.
C2_ZpcTableAfterReset ==
    SetIzoneDone =>
        /\ \A p \in NegPairs :
              Cardinality({i \in 1..Len(zpc_df) :
                              <<zpc_df[i].lay, zpc_df[i].zone>> = p}) = 1
        /\ \A i \in 1..Len(zpc_df) : <<zpc_df[i].lay, zpc_df[i].zone>> \in NegPairs
        /\ \A i \in 1..Len(zpc_df) : zpc_df[i].value = default_value
        /\ (\A c \in Cells(mm) : izone[c] = -mm.imask[c])
              => Len(zpc_df) = Cardinality(ActiveLayers)

\* set_izone has built a table with two zones in one layer, on a grid with an
\* inactive cell
C2_Witness ==
    /\ last.op = "set_izone" /\ last.exc = "none"
    /\ \E c \in Cells(mm) : mm.imask[c] = 0
    /\ \E i, j \in 1..Len(zpc_df) : i # j /\ zpc_df[i].lay = zpc_df[j].lay

\* C3: write_zpc_data() then read_zpc_df() on the written file leaves every
\* row of the ZPC Table with the value it had.
C3_RoundTripIdentity ==
    [][(last.op = "write_zpc_data" /\ zpc_df # <<>> /\ last'.op = "read_zpc_df")
        => /\ Len(zpc_df') = Len(zpc_df)
           /\ \A i \in 1..Len(zpc_df) : NumEq(zpc_df'[i].value, zpc_df[i].value)]_vars

\* C4: read_zpc_df reports exactly the file's names that are no row of the
\* table, and changes neither the set of rows nor the value of a row the
\* file does not name.
C4_UnmatchedNames ==
    [][\A file \in GivenZpcFiles :
          read_zpc_df_named(file) =>
            /\ Printed(last', "not compatible") = FileNames(file) \ ZpcNames(zpc_df)
            /\ Len(zpc_df') = Len(zpc_df)
            /\ \A i \in 1..Len(zpc_df) :
                  /\ zpc_df'[i].name = zpc_df[i].name
                  /\ zpc_df[i].name \notin FileNames(file)
                        => zpc_df'[i].value = zpc_df[i].value]_vars

\* C5: after read_zpc_df on a file with some but not all of the table's
\* names, a row the file does not name keeps its value, a row it names takes
\* the file's value, and the names it does not name are reported as missing.
C5_AbsentRowsKept ==
    [][\A file \in GivenZpcFiles :
          (/\ read_zpc_df_named(file)
           /\ FileNames(file) \cap ZpcNames(zpc_df) # {}
           /\ ZpcNames(zpc_df) \ FileNames(file) # {}) =>
            /\ Len(zpc_df') = Len(zpc_df)
            /\ \A i \in 1..Len(zpc_df) :
                  IF zpc_df[i].name \in FileNames(file)
                  THEN NumEq(zpc_df'[i].value, FileValue(file, zpc_df[i].name))
                  ELSE zpc_df'[i].value = zpc_df[i].value
            /\ Printed(last', "missing") = ZpcNames(zpc_df) \ FileNames(file)]_vars

\* every cell of the layer is active and in zone 1
AllZoneOne(lay) ==
    \A c \in Cells(mm) : c[1] = lay => mm.imask[c] = 1 /\ izone[c] = 1

\* C6: on a layer of R x C cells, all active and all in zone 1,
\* pp_from_rgrid with stride n stores ceil(R/n) * ceil(C/n) pilot points for
\* the layer, no two at the same cell centre, no two with the same name.
C6_RGridCount ==
    [][\A lay \in Layers(mm), n \in 1..MaxStride :
          (pp_from_rgrid(lay, n) /\ AllZoneOne(lay)) =>
            /\ lay \in PPKeys(pp_dic')
            /\ PPGet(pp_dic', lay).kind = "df"
            /\ LET rows == PPGet(pp_dic', lay).rows
               IN  /\ Len(rows) = Ceil(mm.nrow, n) * Ceil(mm.ncol, n)
                   /\ \A i, j \in 1..Len(rows) :
                         i # j => /\ <<rows[i].x, rows[i].y>> # <<rows[j].x, rows[j].y>>
                                  /\ rows[i].name # rows[j].name]_vars

\* pp_from_rgrid has run with stride 2 on a 3 x 4 layer: 2 * 2 points
C6_Witness ==
    /\ last.op = "pp_from_rgrid" /\ last.exc = "none"
    /\ mm.nrow = 3 /\ mm.ncol = 4 /\ AllZoneOne(0)
    /\ 0 \in PPKeys(pp_dic) /\ Len(PPGet(pp_dic, 0).rows) = 4

\* C7: after set_array_from_zpc_df every cell of a row's layer and zone
\* holds the row's value, for every row holding an integer or a real, and
\* the cells where the mask is 0 hold what they held.
C7_Reconstruction ==
    [][last'.op = "set_array_from_zpc_df" =>
          /\ \A i \in 1..Len(zpc_df) :
                IsNumber(zpc_df[i].value) =>
                    \A c \in ZoneCells(mm, izone, zpc_df[i].lay, zpc_df[i].zone) :
                        NumEq(array'[c], zpc_df[i].value)
          /\ \A c \in Cells(mm) : mm.imask[c] = 0 => array'[c] = array[c]]_vars

\* the grid is the scenario's: 2 layers of 4 x 4 cells, all active
ScenarioGrid ==
    /\ Shape(mm) = <<2, 4, 4>>
    /\ \A c \in Cells(mm) : mm.imask[c] = 1

\* C8: on the 2-layer 4 x 4 all-active grid, set_izone(), then
\* set_zpc_values({0: 1e-3, 1: 2e-3}), then set_array_from_zpc_df() end with
\* every layer-0 cell at 1e-3 and every layer-1 cell at 2e-3.
C8_EndToEnd ==
    (scen = 3 /\ ScenarioGrid) =>
        \A c \in Cells(mm) : array[c] = PyFloat(IF c[1] = 0 THEN 1 ELSE 2)

\* the three calls have been made on the scenario's grid
C8_Witness == scen = 3 /\ ScenarioGrid /\ last.exc = "none"

\* C9: set_izone with an array of another shape fails and changes nothing.
C9_FailedSetIzoneChangesNothing ==
    [][\A arg \in IzoneArgs(mm) :
          (arg.kind = "ndarray" /\ arg.shape # Shape(mm) /\ set_izone(arg)) =>
            /\ last'.exc # "none"
            /\ izone' = izone /\ zpc_df' = zpc_df /\ pp_dic' = pp_dic
            /\ array' = array]_vars

\* C10: after a successful set_izone, whatever edits came before, every ZPC
\* value is the default value, no pilot-point table holds a row, and the keys
\* of the Pilot-Point Table Set are the layers with a positive zone.
C10_ResetDiscardsEdits ==
    (last.op = "set_izone" /\ last.exc = "none") =>
        /\ \A i \in 1..Len(zpc_df) : zpc_df[i].value = default_value
        /\ \A i \in 1..Len(pp_dic) : pp_dic[i].df = NoneDf
        /\ PPKeys(pp_dic) = PosLayers
        /\ Len(pp_dic) = Cardinality(PosLayers)

\* set_izone has reset a Pilot-Point Table Set that pp_from_rgrid had filled
C10_Witness ==
    /\ calls = <<"pp_from_rgrid", "set_izone">> /\ last.exc = "none"
    /\ pp_dic # <<>> /\ zpc_df # <<>>

\* the keys of a {layer: number} mapping and the number given for a key
DictKeys(values) == {values.items[k].lay : k \in 1..Len(values.items)}
DictValue(values, lay) ==
    values.items[CHOOSE k \in 1..Len(values.items) : values.items[k].lay = lay].num
\* the numbers a nested mapping {layer: {zone: number}} gives for a layer and zone
NestedValues(values, lay, zone) ==
    UNION {{values.items[k].sub[j].num :
                j \in {n \in 1..Len(values.items[k].sub) : values.items[k].sub[n].zone = zone}} :
            k \in {n \in 1..Len(values.items) : values.items[n].lay = lay}}
\* the call leaves the rows of the ZPC Table and their name, layer and zone
SameZpcRows ==
    /\ Len(zpc_df') = Len(zpc_df)
    /\ \A i \in 1..Len(zpc_df) :
          /\ zpc_df'[i].name = zpc_df[i].name
          /\ zpc_df'[i].lay = zpc_df[i].lay
          /\ zpc_df'[i].zone = zpc_df[i].zone

\* C11: set_zpc_values with a single number sets the value of every row of
\* the ZPC Table to the number and leaves the rows, their layer and their
\* zone as they were.
C11_UniformValue ==
    [][\A values \in ZpcValueArgs :
          (values.kind = "number" /\ set_zpc_values(values)) =>
            /\ SameZpcRows
            /\ \A i \in 1..Len(zpc_df) : NumEq(zpc_df'[i].value, values.num)]_vars

\* C12: set_zpc_values with a mapping {layer: number} sets the value of the
\* rows whose layer is a key of the mapping, and of no other row, whatever
\* the number of layers of the grid.
C12_PerLayerValue ==
    [][\A values \in DeepValueArgs(mm) :
          set_zpc_values(values) =>
            /\ SameZpcRows
            /\ \A i \in 1..Len(zpc_df) :
                  IF zpc_df[i].lay \in DictKeys(values)
                  THEN NumEq(zpc_df'[i].value, DictValue(values, zpc_df[i].lay))
                  ELSE NumEq(zpc_df'[i].value, zpc_df[i].value)]_vars

\* C13: set_zpc_values with a nested mapping {layer: {zone: number}} sets
\* the value of the one row of that layer and zone, changes no other row and
\* adds no row.
C13_PerZoneValue ==
    [][\A values \in ZpcValueArgs :
          (/\ values.kind = "dict"
           /\ \A k \in 1..Len(values.items) : values.items[k].kind = "dict"
           /\ set_zpc_values(values)) =>
            /\ SameZpcRows
            /\ \A i \in 1..Len(zpc_df) :
                  LET given == NestedValues(values, zpc_df[i].lay, zpc_df[i].zone)
                  IN  IF given # {}
                      THEN \E x \in given : NumEq(zpc_df'[i].value, x)
                      ELSE NumEq(zpc_df'[i].value, zpc_df[i].value)]_vars

\* an input of set_zpc_values that is neither a number nor a mapping
\* {layer: number} nor a mapping {layer: {zone: number}}
InvalidValues(values) ==
    \/ values.kind \notin {"number", "dict"}
    \/ /\ values.kind = "dict"
       /\ \E k \in 1..Len(values.items) : values.items[k].kind = "other"

\* C14: set_zpc_values with an input that is neither a number nor a mapping
\* of one of the two supported shapes reports the invalid input and changes
\* neither the ZPC Table, the Zone Map, the Pilot-Point Table Set nor the
\* grid array.
C14_InvalidInputNoOp ==
    [][\A values \in ZpcValueArgs :
          (InvalidValues(values) /\ set_zpc_values(values)) =>
            /\ \E k \in 1..Len(last'.printed) : last'.printed[k].what = "Invalid input"
            /\ zpc_df' = zpc_df /\ izone' = izone /\ pp_dic' = pp_dic
            /\ array' = array]_vars

\* the values the Zone Map holds
ZoneIds == {izone[c] : c \in Cells(mm)}

\* C15: set_array(lay, zone, values) fails and leaves the grid array as it
\* was whenever lay is no layer of the grid, zone is no value of the Zone
\* Map, zone is negative and values is an array, or zone is positive and
\* values is a scalar.
C15_SetArrayFailures ==
    [][last'.op = "set_array" =>
          LET lay == last'.args[1]
              zone == last'.args[2]
              values == last'.args[3]
          IN  (\/ lay \notin Layers(mm)
               \/ zone \notin ZoneIds
               \/ zone < 0 /\ values.ty = "ndarray"
               \/ zone > 0 /\ values.ty # "ndarray") =>
                /\ last'.exc # "none"
                /\ array' = array]_vars

\* set_array was given an array of one value per cell for a negative zone
\* that covers a whole layer of the grid, and has failed
C15_Witness ==
    /\ last.op = "set_array" /\ last.exc = "AssertionError"
    /\ last.args[1] \in Layers(mm) /\ last.args[2] \in ZoneIds /\ last.args[2] < 0
    /\ last.args[3].ty = "ndarray"
    /\ Len(last.args[3].vals) = Cardinality(ZoneCells(mm, izone, last.args[1], last.args[2]))

\* C16: whatever set_izone, pp_from_rgrid, pp_df_from_shp and read_pp_df calls
\* were made, every layer key of the Pilot-Point Table Set is a layer whose
\* Zone Map holds a positive zone.
C16_PPKeysHavePositiveZone == PPKeys(pp_dic) \subseteq PosLayers

\* the (layer, zone) pairs of the rows of the ZPC Table
ZpcPairs == {<<zpc_df[i].lay, zpc_df[i].zone>> : i \in 1..Len(zpc_df)}

\* C17: whatever calls were made on the parameter, a failed set_izone
\* included, the (layer, zone) pairs of the rows of the ZPC Table are the
\* (layer, negative zone) pairs of the Zone Map, one row per pair.
C17_ZpcRowsMatchZoneMap ==
    /\ ZpcPairs = NegPairs
    /\ Len(zpc_df) = Cardinality(NegPairs)

\* C18: the mask is 1 exactly at the cells where the reference grid is
\* non-zero, and no call (add_param, set_izone, set_zpc_values, set_array,
\* set_array_from_zpc_df, interp_from_factors, pp_from_rgrid, read_zpc_df or
\* any other) changes a cell of it.
C18_MaskImmutable ==
    /\ [](\A c \in Cells(mm) : mm.imask[c] = 1 <=> mm.permh[c] # 0)
    /\ [][mm'.imask = mm.imask]_vars

\* set_izone has written -1 into a Zone Map, then interp_from_factors or
\* set_array has written the grid array, on a grid with an inactive cell
C18_Witness ==
    /\ Len(calls) = 2 /\ calls[1] = "set_izone"
    /\ calls[2] \in {"interp_from_factors", "set_array"} /\ last.exc = "none"
    /\ \E c \in Cells(mm) : mm.imask[c] = 0
    /\ \E c \in Cells(mm) : izone[c] # mm.imask[c]
    /\ array # ArrayFromMask(mm)

\* C19: set_izone with no zonation gives a Zone Map that is -1 at every
\* active cell; set_izone with an array of the grid's shape gives a Zone Map
\* that is the array at every active cell, whatever the array holds at the
\* inactive cells.
C19_SetIzoneResult ==
    [][last'.op = "set_izone" =>
          LET arg == last'.args[1]
          IN  /\ arg = NoneArg =>
                    \A c \in Cells(mm) : mm.imask[c] = 1 => izone'[c] = -1
              /\ (arg.kind = "ndarray" /\ arg.shape = Shape(mm)) =>
                    \A c \in Cells(mm) :
                        IF mm.imask[c] = 1 THEN izone'[c] = arg.data[c]
                        ELSE izone'[c] = 0]_vars

\* set_izone was given an array of the grid's shape that holds 2 at an
\* inactive cell, after another zonation
C19_Witness ==
    /\ last.op = "set_izone" /\ last.exc = "none" /\ calls # <<>>
    /\ last.args[1] = ArrMixed(Shape(mm))
    /\ mm.imask[<<0, 0, 0>>] = 0 /\ last.args[1].data[<<0, 0, 0>>] = 2
    /\ \E c \in Cells(mm) : izone[c] = 2

\* the cells pp_from_rgrid keeps: on the lattice of stride n, in zone 1
Survivors(lay, n) ==
    {c \in Cells(mm) : c[1] = lay /\ c[2] % n = 0 /\ c[3] % n = 0 /\ izone[c] = 1}

\* C20: for any Zone Map, layer and stride n, every pilot point that
\* pp_from_rgrid stores is at the centre of a cell of the layer whose row and
\* column are multiples of n and whose zone is 1, has zone 1 and the default
\* value; a cell of another zone gives no point; when no cell survives the
\* table of the layer is empty and no error is raised.
C20_RGridPoints ==
    [][\A lay \in Layers(mm), n \in 1..MaxStride :
          pp_from_rgrid(lay, n) =>
            /\ last'.exc = "none"
            /\ lay \in PPKeys(pp_dic')
            /\ PPGet(pp_dic', lay).kind = "df"
            /\ LET rows == PPGet(pp_dic', lay).rows
               IN  /\ \A i \in 1..Len(rows) :
                         /\ \E c \in Survivors(lay, n) :
                               /\ rows[i].x = mm.x_vals[c[3]]
                               /\ rows[i].y = mm.y_vals[c[2]]
                         /\ rows[i].zone = 1
                         /\ rows[i].value = default_value
                   /\ Survivors(lay, n) = {} => rows = <<>>]_vars

\* pp_from_rgrid has run with stride 2 on a 4 x 4 layer whose first column is
\* zone 2 and whose other columns are zone 1: of the four lattice cells the
\* two of column 2 give a point
C20_Witness ==
    /\ last.op = "pp_from_rgrid" /\ last.exc = "none" /\ last.args = <<0, 2>>
    /\ mm.nrow = 4 /\ mm.ncol = 4
    /\ \A c \in Cells(mm) : izone[c] = IF c[3] = 0 THEN 2 ELSE 1
    /\ 0 \in PPKeys(pp_dic) /\ Len(PPGet(pp_dic, 0).rows) = 2

\* C21: no call of set_array, set_array_from_zpc_df or interp_from_factors
\* changes the grid array at a cell where the mask is 0; interp_from_factors
\* changes no cell of a negative zone; set_array_from_zpc_df changes no cell of
\* a positive zone.
C21_ReconstructionKeepsInactiveCells ==
    [][/\ last'.op \in {"set_array", "set_array_from_zpc_df", "interp_from_factors"} =>
            \A c \in Cells(mm) : mm.imask[c] = 0 => array'[c] = array[c]
       /\ last'.op = "interp_from_factors" =>
            \A c \in Cells(mm) : izone[c] < 0 => array'[c] = array[c]
       /\ last'.op = "set_array_from_zpc_df" =>
            \A c \in Cells(mm) : izone[c] > 0 => array'[c] = array[c]]_vars

\* the first field (the point's name) of the lines of a pilot-point file
PPFileNames(file) == [i \in 1..Len(file.lines) |-> file.lines[i][1]]
\* the layer's file holds what write_pp_df writes of the layer's table, a
\* table with its points' names as index
WrittenFromTable(lay) ==
    /\ PPGet(pp_dic, lay).kind = "df" /\ PPGet(pp_dic, lay).index = "name"
    /\ pp_files[lay] =
          File([i \in 1..Len(PPGet(pp_dic, lay).rows) |-> PPLine(PPGet(pp_dic, lay), i)])

\* C22: for a layer's table built by pp_from_rgrid and written by
\* write_pp_df, read_pp_df gives a table with the same names, coordinates,
\* zones and values, and a write_pp_df after the read writes the names that
\* the file read held.
C22_PPRoundTrip ==
    [][/\ (last'.op = "read_pp_df" /\ last'.exc = "none") =>
            \A lay \in PPKeys(pp_dic) :
                WrittenFromTable(lay) =>
                    LET old == PPGet(pp_dic, lay).rows
                        new == PPGet(pp_dic', lay).rows
                    IN  /\ Len(new) = Len(old)
                        /\ \A i \in 1..Len(old) :
                              /\ new[i].name = old[i].name
                              /\ NumEq(new[i].x, old[i].x) /\ NumEq(new[i].y, old[i].y)
                              /\ new[i].zone = old[i].zone
                              /\ NumEq(new[i].value, old[i].value)
       /\ (/\ last.op = "read_pp_df" /\ last.exc = "none"
           /\ last'.op = "write_pp_df" /\ last'.exc = "none") =>
            \A lay \in PPKeys(pp_dic) :
                PPFileNames(pp_files'[lay]) = PPFileNames(pp_files[lay])]_vars

\* C23: whatever add_param, load_grid, set_array, set_array_from_zpc_df and
\* interp_from_factors calls were made, the array the parameter writes into
\* is the array the model holds under the parameter's name, so that what
\* reconstruction has written is what write_grid gives for the parameter.
C23_ArrayIsModelGrid ==
    /\ [](mm.grid.shared)
    /\ [][last'.op \in {"set_array", "set_array_from_zpc_df", "interp_from_factors"} =>
            write_grid(mm', array') = array']_vars

====
